---- MODULE Spec2Model ----
(***************************************************************************)
(* SiteScanner: one audit run of a website.  The repository holds two      *)
(* variants of the program, src/index.js (two device profiles, summary     *)
(* requested inside formatReport) and src/unnamed/part_000 (one profile,   *)
(* base report written first, summary appended).  A run executes one of    *)
(* them; `variant` says which.                                             *)
(*                                                                         *)
(* Strings the program inspects character by character (the URL) are       *)
(* sequences of one-character strings.  JavaScript null is the record      *)
(* Null; every nullable value is a record, so IsNull is a domain test.     *)
(* A raw Lighthouse score s in [0,1] is kept as the integer 100*s, and     *)
(* NullScore stands for a score that is null.                              *)
(***************************************************************************)
EXTENDS Integers, Sequences, FiniteSets, TLC

VARIABLES
    variant,            \* "index" (src/index.js) or "part_000" (src/unnamed/part_000)
    argv,               \* process.argv[2]: [given, text]
    apiKey,             \* process.env.OPENAI_API_KEY after dotenv.config(): "set" or "absent"
    pc,                 \* position of the run
    exitCode,           \* NoExit, 0 or 1
    formattedUrl,       \* formatUrl's result
    chrome,             \* [launched, killed]: launches and kill() calls of the browser
    deviceIdx,          \* runLighthouse: index of the device profile being run
    results,            \* runLighthouse: results gathered so far
    lighthouseResults,  \* auditWebsite: what runLighthouse returned
    pa11yResults,       \* auditWebsite: what runPa11y returned
    httpPeer,           \* checkHttpsRedirect: what the peer of the GET does: [kind, location]
    httpsRedirect,      \* checkSecurity: what checkHttpsRedirect resolved to
    portPeers,          \* checkOpenPorts: what the host does on each port
    sockets,            \* checkOpenPorts: state of each socket
    portResults,        \* checkOpenPorts: the array Promise.all is filling
    settledCount,       \* checkOpenPorts: promises settled so far
    outOfOrder,         \* checkOpenPorts: a promise settled before one of a lower index
    openPorts,          \* checkSecurity: what checkOpenPorts resolved to
    dnsReply,           \* checkDNSRecords: what the resolver handed to the callback
    dnsRecords,         \* checkSecurity: what checkDNSRecords resolved to
    finalReport,        \* auditWebsite: the assembled report
    reportContent,      \* saveReportToFile: what formatReport returned
    summaryReply,       \* what the summarization call answered
    file,               \* the report file: [exists, content]
    started,            \* names of the external operations started so far
    log,                \* tags of the console.error calls made so far
    caught,             \* origin of the exception caught at auditWebsite's top level
    trail               \* phases of the run, in the order they were entered

vars == <<variant, argv, apiKey, pc, exitCode, formattedUrl, chrome, deviceIdx, results,
          lighthouseResults, pa11yResults, httpPeer, httpsRedirect, portPeers,
          sockets, portResults, settledCount, outOfOrder, openPorts, dnsReply,
          dnsRecords, finalReport,
          reportContent, summaryReply, file, started, log, caught, trail>>

(***************************************************************************)
(* Bounds of the model.                                                    *)
(***************************************************************************)
MaxIssues == 1          \* most accessibility issues pa11y reports
MaxRecords == 1         \* most TXT records the resolver delivers

(***************************************************************************)
(* Values.                                                                 *)
(***************************************************************************)
Null == [null |-> TRUE]
IsNull(x) == "null" \in DOMAIN x
NoExit == -1
NoUrl == <<>>
NullScore == -1

Variants == {"index", "part_000"}
ApiKeys == {"set", "absent"}

(***************************************************************************)
(* Characters and strings.                                                 *)
(***************************************************************************)
UpperCase == <<"A","B","C","D","E","F","G","H","I","J","K","L","M",
               "N","O","P","Q","R","S","T","U","V","W","X","Y","Z">>
LowerCase == <<"a","b","c","d","e","f","g","h","i","j","k","l","m",
               "n","o","p","q","r","s","t","u","v","w","x","y","z">>

ToLowerChar(c) ==
    IF \E i \in DOMAIN UpperCase : UpperCase[i] = c
    THEN LowerCase[CHOOSE i \in DOMAIN UpperCase : UpperCase[i] = c]
    ELSE c

ToLower(s) == [i \in DOMAIN s |-> ToLowerChar(s[i])]

IsSpace(c) == c \in {" ", "\t", "\n"}

RECURSIVE TrimStart(_)
TrimStart(s) ==
    IF s # <<>> /\ IsSpace(Head(s)) THEN TrimStart(Tail(s)) ELSE s

RECURSIVE TrimEnd(_)
TrimEnd(s) ==
    IF s # <<>> /\ IsSpace(s[Len(s)]) THEN TrimEnd(SubSeq(s, 1, Len(s) - 1)) ELSE s

\* String.prototype.trim
Trim(s) == TrimEnd(TrimStart(s))

StartsWith(s, p) == Len(s) >= Len(p) /\ SubSeq(s, 1, Len(p)) = p

HttpPrefix == <<"h","t","t","p",":","/","/">>
HttpsPrefix == <<"h","t","t","p","s",":","/","/">>

\* the test without its i flag
HasSchemePrefixCaseSensitive(s) ==
    StartsWith(s, HttpPrefix) \/ StartsWith(s, HttpsPrefix)

\* /^https?:\/\//i.test(s)
HasSchemePrefix(s) ==
    \/ StartsWith(ToLower(s), HttpPrefix)
    \/ StartsWith(ToLower(s), HttpsPrefix)

\* Index of the first character of s at or after position i that is in set cs,
\* Len(s) + 1 when there is none.
RECURSIVE FindFrom(_, _, _)
FindFrom(s, i, cs) ==
    IF i > Len(s) THEN Len(s) + 1
    ELSE IF s[i] \in cs THEN i
    ELSE FindFrom(s, i + 1, cs)

ForbiddenHostChars == {" ", "\t", "\n", "<", ">", "^", "|", "[", "]", "\\", "%"}

\* new URL(s) for a string that begins with http:// or https:// (any case):
\* the scheme and the host are lowercased, an empty path becomes "/", and an
\* empty host or a forbidden host character is a TypeError.
ParseUrl(s) ==
    LET colon == FindFrom(s, 1, {":"})
        scheme == ToLower(SubSeq(s, 1, colon - 1))
        hostStart == colon + 3
        hostEnd == FindFrom(s, hostStart, {"/", "?", "#"})
        host == ToLower(SubSeq(s, hostStart, hostEnd - 1))
        rest == SubSeq(s, hostEnd, Len(s))
    IN IF host = <<>> \/ \E i \in DOMAIN host : host[i] \in ForbiddenHostChars
       THEN [ok |-> FALSE, scheme |-> scheme, hostname |-> <<>>, pathname |-> <<>>]
       ELSE [ok |-> TRUE, scheme |-> scheme, hostname |-> host,
             pathname |-> IF rest = <<>> THEN <<"/">> ELSE rest]

\* url.href
Href(u) == u.scheme \o <<":", "/", "/">> \o u.hostname \o u.pathname

\* formatUrl up to the parse: trim, prepend https:// when no scheme is there.
WithScheme(inputUrl) ==
    LET t == Trim(inputUrl)
    IN IF ~HasSchemePrefix(t) THEN HttpsPrefix \o t ELSE t

\* formatUrl with the parse failure going unnoticed: the string is handed on.
formatUrlUnchecked(inputUrl) ==
    LET url == ParseUrl(WithScheme(inputUrl))
    IN [ok |-> TRUE, href |-> IF url.ok THEN Href(url) ELSE WithScheme(inputUrl)]

\* formatUrl: the href, or [ok |-> FALSE] where the code calls process.exit(1).
formatUrl(inputUrl) ==
    LET url == ParseUrl(WithScheme(inputUrl))
    IN IF url.ok
       THEN [ok |-> TRUE,
             href |-> Href([url EXCEPT !.pathname =
                        IF url.pathname = <<>> \/ url.pathname = <<"/">>
                        THEN <<"/">> ELSE url.pathname])]
       ELSE [ok |-> FALSE, href |-> <<>>]

\* The command lines of the model.
RawInputs ==
    { [given |-> FALSE, text |-> <<>>],
      [given |-> TRUE, text |-> <<>>],
      [given |-> TRUE, text |-> <<"a"," ","b">>],
      [given |-> TRUE, text |-> <<"e","x",".","c","o">>],
      [given |-> TRUE, text |-> <<" ","H","T","T","P",":","/","/","E","x",".","c","o"," ">>] }

(***************************************************************************)
(* What the rendering engine (lighthouse) can answer.                      *)
(***************************************************************************)
DeviceProfiles == <<"mobile", "desktop">>

AuditEntry(id, score) ==
    [id |-> id, title |-> id, score |-> score, displayValue |-> <<"dv", id>>]

\* The audits runLighthouse reads by name.
NamedAudits == {"first-contentful-paint", "largest-contentful-paint", "interactive",
                "cumulative-layout-shift", "max-potential-fid"}

GoodAudits ==
    << AuditEntry("first-contentful-paint", 100),
       AuditEntry("largest-contentful-paint", 95),
       AuditEntry("interactive", 90),
       AuditEntry("cumulative-layout-shift", 100),
       AuditEntry("max-potential-fid", 100) >>

SlowAudits ==
    << AuditEntry("first-contentful-paint", 100),
       AuditEntry("largest-contentful-paint", 50),
       AuditEntry("interactive", 89),
       AuditEntry("cumulative-layout-shift", 100),
       AuditEntry("max-potential-fid", NullScore) >>

Categories(seo, acc, perf, bp) ==
    [seo |-> seo, accessibility |-> acc, performance |-> perf, bestPractices |-> bp]

LhrGood == [categories |-> Categories(100, 95, 90, 100), audits |-> GoodAudits]
LhrSlow == [categories |-> Categories(100, 89, 85, 100), audits |-> SlowAudits]
\* a result without the categories object: extraction throws a TypeError
LhrNoCategories == [categories |-> Null, audits |-> GoodAudits]

\* a result whose performance category could not be scored: score is null
LhrNullScore == [categories |-> Categories(100, 95, NullScore, 100), audits |-> GoodAudits]

Lhrs == {LhrGood, LhrSlow, LhrNullScore, LhrNoCategories}

\* What `await lighthouse(url, options)` does: throw, or return { lhr }.
EngineOutcomes == {[threw |-> TRUE, lhr |-> Null]}
                  \cup {[threw |-> FALSE, lhr |-> l] : l \in Lhrs}

\* score * 100 in JavaScript: null * 100 is 0.
Times100(score) == IF score = NullScore THEN 0 ELSE score

HasAudit(lhr, id) == \E i \in DOMAIN lhr.audits : lhr.audits[i].id = id
AuditOf(lhr, id) == lhr.audits[CHOOSE i \in DOMAIN lhr.audits : lhr.audits[i].id = id]

\* index.js lines 45-67: the QualityResult of one device, or a TypeError.
ExtractDevice(lhr) ==
    IF IsNull(lhr.categories) \/ \E id \in NamedAudits : ~HasAudit(lhr, id)
    THEN [threw |-> TRUE, value |-> Null]
    ELSE [threw |-> FALSE,
          value |->
            [seoScore |-> Times100(lhr.categories.seo),
             accessibilityScore |-> Times100(lhr.categories.accessibility),
             performanceScore |-> Times100(lhr.categories.performance),
             bestPracticesScore |-> Times100(lhr.categories.bestPractices),
             metrics |->
               [firstContentfulPaint |-> AuditOf(lhr, "first-contentful-paint").displayValue,
                largestContentfulPaint |-> AuditOf(lhr, "largest-contentful-paint").displayValue,
                timeToInteractive |-> AuditOf(lhr, "interactive").displayValue,
                cumulativeLayoutShift |-> AuditOf(lhr, "cumulative-layout-shift").displayValue],
             coreWebVitals |->
               [lcp |-> AuditOf(lhr, "largest-contentful-paint").displayValue,
                fid |-> AuditOf(lhr, "max-potential-fid").displayValue,
                cls |-> AuditOf(lhr, "cumulative-layout-shift").displayValue],
             audits |-> lhr.audits]]

\* part_000 lines 35-43: the detailedReport, or a TypeError.
ExtractDetailed(lhr) ==
    IF IsNull(lhr.categories)
    THEN [threw |-> TRUE, value |-> Null]
    ELSE [threw |-> FALSE,
          value |->
            [seoScore |-> Times100(lhr.categories.seo),
             accessibilityScore |-> Times100(lhr.categories.accessibility),
             performanceScore |-> Times100(lhr.categories.performance),
             bestPracticesScore |-> Times100(lhr.categories.bestPractices),
             audits |-> lhr.audits]]

\* `const results = {}`: no device has an entry yet.
NoResults == [mobile |-> Null, desktop |-> Null]

(***************************************************************************)
(* What the other collaborators can answer.                                *)
(***************************************************************************)
Issues == {[message |-> "img has no alt", code |-> "H37"]}
IssueLists == UNION {[1..n -> Issues] : n \in 0..MaxIssues}

\* What `await pa11y(url)` does: throw, or return { issues }.
Pa11yOutcomes == {[threw |-> TRUE, issues |-> <<>>]}
                 \cup {[threw |-> FALSE, issues |-> l] : l \in IssueLists}

TxtRecords == {<<"v=spf1", "-all">>}
TxtLists == UNION {[1..n -> TxtRecords] : n \in 0..MaxRecords}

\* What dns.resolveTxt hands to its callback: (err), (null, list), (null, non-list).
DnsOutcomes == {[err |-> TRUE, isList |-> FALSE, items |-> <<>>],
                [err |-> FALSE, isList |-> FALSE, items |-> <<>>]}
               \cup {[err |-> FALSE, isList |-> TRUE, items |-> l] : l \in TxtLists}

\* res.headers.location of a response to the request for `url`: absent, the
\* URL itself, or the URL without its last character.
NoLocation == [present |-> FALSE, value |-> <<>>]
Locations(url) ==
    {NoLocation,
     [present |-> TRUE, value |-> url],
     [present |-> TRUE, value |-> SubSeq(url, 1, Len(url) - 1)]}

\* What the peer of the plain-HTTP request for `url` can do: answer, fail the
\* request (refused, reset), or accept the connection and never answer.
NoPeer == [kind |-> "none", location |-> NoLocation]
HttpPeers(url) ==
    {[kind |-> "responds", location |-> l] : l \in Locations(url)}
    \cup {[kind |-> "errors", location |-> NoLocation],
          [kind |-> "silent", location |-> NoLocation]}

\* What openai.chat.completions.create can do: throw (error, timeout, quota),
\* answer with text, answer with no choice at all, answer with null content.
SummaryReplies == {"throws", "text", "noChoices", "nullContent"}
NoReply == "none"

commonPorts == <<80, 443, 21, 22, 25, 3306, 3389>>

\* What the host does on each of the ports: accept the connection within the
\* timeout, accept it slowly (the connect and the timer race), refuse it (an
\* 'error' event), or stay silent (only the timer fires).
HostProfiles ==
    { <<"accepts", "accepts", "refuses", "refuses", "silent", "silent", "silent">>,
      <<"refuses", "slow", "silent", "accepts", "refuses", "silent", "accepts">> }

(***************************************************************************)
(* Rendering (formatReport).  The text is a sequence of lines, each a      *)
(* record [k, v]: k names the line, v is what the template puts there.     *)
(***************************************************************************)
Line(k, v) == [p |-> "", k |-> k, v |-> v]
ProfileLine(p, k, v) == [p |-> p, k |-> k, v |-> v]

RECURSIVE MapSeq(_, _)
MapSeq(F(_), s) == IF s = <<>> THEN <<>> ELSE <<F(Head(s))>> \o MapSeq(F, Tail(s))

\* Object.values(audits).filter(a => a.score < 0.9).map(...): null < 0.9 is true
SimplifiedAudits(audits) ==
    LET Failing(a) == Times100(a.score) < 90
        Simplify(a) == [title |-> a.title, score |-> Times100(a.score)]
    IN MapSeq(Simplify, SelectSeq(audits, Failing))

NoMajorIssues == <<"No major issues found.">>

\* index.js lines 172-183
RecommendationsIndex(report) ==
    (IF report.lighthouse.mobile.performanceScore < 90
     THEN <<"Mobile: Optimize images, reduce JavaScript, and improve time to interactive.">>
     ELSE <<>>)
    \o
    (IF report.lighthouse.desktop.performanceScore < 90
     THEN <<"Desktop: Optimize images, reduce JavaScript, and improve time to interactive.">>
     ELSE <<>>)

\* part_000 lines 177-187
RecommendationsPart0(report) ==
    (IF report.lighthouse.performanceScore < 90
     THEN <<"Consider optimizing images and reducing JavaScript to improve performance.">>
     ELSE <<>>)
    \o
    (IF report.lighthouse.accessibilityScore < 90
     THEN <<"Review accessibility issues and apply fixes from the Pa11y results.">>
     ELSE <<>>)
    \o
    (IF ~report.security.httpsRedirect
     THEN <<"Ensure that HTTP traffic is redirected to HTTPS.">>
     ELSE <<>>)

ScoreLines(prefix, q) ==
    << ProfileLine(prefix, "SEO Score", q.seoScore),
       ProfileLine(prefix, "Accessibility Score", q.accessibilityScore),
       ProfileLine(prefix, "Performance Score", q.performanceScore),
       ProfileLine(prefix, "Best Practices Score", q.bestPracticesScore) >>

MetricLines(prefix, q) ==
    << ProfileLine(prefix, "Detailed Performance Metrics", q.metrics),
       ProfileLine(prefix, "Core Web Vitals", q.coreWebVitals) >>

Pa11yLine(report) ==
    Line("Pa11y Accessibility Issues",
         IF Len(report.pa11y) # 0 THEN report.pa11y
         ELSE <<"No accessibility issues found.">>)

SecurityLines(report, dnsText) ==
    << Line("HTTPS Redirect", IF report.security.httpsRedirect THEN "Passed" ELSE "Failed"),
       Line("Open Ports", report.security.openPorts),
       Line("DNS TXT Records", dnsText) >>

\* index.js lines 171-249: the base report, or the TypeError of reading a
\* property of a null report.lighthouse (line 174), of an absent
\* report.lighthouse.mobile (line 174) or report.lighthouse.desktop (line 175).
RenderIndex(report, url) ==
    IF \/ IsNull(report.lighthouse)
       \/ IsNull(report.lighthouse.mobile)
       \/ IsNull(report.lighthouse.desktop)
    THEN [threw |-> TRUE, content |-> <<>>]
    ELSE LET recs == RecommendationsIndex(report)
         IN [threw |-> FALSE,
             content |->
               <<Line("Website Audit Report for", url)>>
               \o ScoreLines("Mobile", report.lighthouse.mobile)
               \o ScoreLines("Desktop", report.lighthouse.desktop)
               \o MetricLines("Mobile", report.lighthouse.mobile)
               \o MetricLines("Desktop", report.lighthouse.desktop)
               \o <<Line("Recommendations", IF Len(recs) # 0 THEN recs ELSE NoMajorIssues),
                    Line("Lighthouse Audit Details",
                         SimplifiedAudits(report.lighthouse.mobile.audits)),
                    Pa11yLine(report)>>
               \o SecurityLines(report,
                    IF Len(report.security.dnsRecords.items) # 0
                    THEN report.security.dnsRecords.items
                    ELSE <<"No DNS TXT records found">>)]

\* part_000 lines 176-224: the report, or a TypeError: report.lighthouse is
\* null, or dnsRecords is the fallback string, which has no join method.
RenderPart0(report, url) ==
    IF IsNull(report.lighthouse) \/ report.security.dnsRecords.kind = "string"
    THEN [threw |-> TRUE, content |-> <<>>]
    ELSE LET recs == RecommendationsPart0(report)
         IN [threw |-> FALSE,
             content |->
               <<Line("Website Audit Report for", url)>>
               \o ScoreLines("", report.lighthouse)
               \o <<Line("Recommendations", IF Len(recs) # 0 THEN recs ELSE NoMajorIssues),
                    Line("Lighthouse Audit Details",
                         SimplifiedAudits(report.lighthouse.audits)),
                    Pa11yLine(report)>>
               \o SecurityLines(report,
                    IF report.security.dnsRecords.kind = "list"
                    THEN report.security.dnsRecords.items
                    ELSE <<"No DNS TXT records found">>)]

SummaryText == "summary text"

\* index.js lines 252-270: what formatReport returns once the call answered.
WithSummaryIndex(content, reply) ==
    CASE reply = "text" -> content \o <<Line("Summary by OpenAI", SummaryText)>>
      [] reply = "nullContent" -> content \o <<Line("Summary by OpenAI", "null")>>
      [] OTHER -> content     \* the call threw, or choices[0] is undefined

\* part_000 lines 157-174: generateSummary's result, Null for null.
generateSummary(reply) ==
    CASE reply = "text" -> [text |-> SummaryText]
      [] reply \in {"noChoices", "nullContent"} -> [text |-> "No summary available."]
      [] OTHER -> Null

\* index.js lines 124-134
checkDNSRecords(o) ==
    IF o.err \/ ~o.isList THEN [kind |-> "list", items |-> <<>>]
    ELSE [kind |-> "list", items |-> o.items]

\* part_000 lines 99-109
checkDNSRecordsPart0(o) ==
    IF o.err THEN [kind |-> "string", items |-> <<"No TXT records found or error in lookup">>]
    ELSE IF o.isList THEN [kind |-> "list", items |-> o.items]
    ELSE [kind |-> "undefined", items |-> <<>>]

\* any redirect counts, whatever its target
LocationPresent(location, url) == location.present

\* index.js line 93: res.headers.location === url
LocationMatches(location, url) == location.present /\ location.value = url

\* the values are collected in the order the promises settle
SettleInCompletionOrder(arr, n, i, v) == [arr EXCEPT ![n + 1] = v]

\* Promise.all (index.js line 103): the value of the i-th promise goes to the
\* i-th place of the result, whatever the number n of promises settled before.
SettleAt(arr, n, i, v) == [arr EXCEPT ![i] = v]

Pending == [port |-> 0, state |-> "pending"]
PortOpen(port) == [port |-> port, state |-> "open"]
PortClosed(port) == [port |-> port, state |-> "closed or filtered"]

(***************************************************************************)
(* The run.                                                                *)
(***************************************************************************)
NoFile == [exists |-> FALSE, content |-> <<>>]
Ports == DOMAIN commonPorts

\* nothing has happened yet
Fresh ==
    /\ exitCode = NoExit
    /\ formattedUrl = NoUrl
    /\ chrome = [launched |-> 0, killed |-> 0]
    /\ deviceIdx = 0
    /\ results = Null
    /\ lighthouseResults = Null
    /\ pa11yResults = Null
    /\ httpPeer = NoPeer
    /\ httpsRedirect = FALSE
    /\ portPeers = [i \in Ports |-> "none"]
    /\ sockets = [i \in Ports |-> "unopened"]
    /\ portResults = [i \in Ports |-> Pending]
    /\ settledCount = 0
    /\ outOfOrder = FALSE
    /\ openPorts = <<>>
    /\ dnsReply = Null
    /\ dnsRecords = Null
    /\ finalReport = Null
    /\ reportContent = <<>>
    /\ summaryReply = NoReply
    /\ file = NoFile
    /\ started = {}
    /\ log = {}
    /\ caught = "none"
    /\ trail = <<"Start">>

\* The module has been evaluated (the client was constructed, so the
\* credential is set) and the script body is about to run.
Init ==
    /\ variant \in Variants
    /\ argv \in RawInputs
    /\ apiKey = "set"
    /\ pc = "main"
    /\ Fresh

\* The process starts: the module is about to be evaluated.
LoadInit ==
    /\ variant \in Variants
    /\ argv \in RawInputs
    /\ apiKey \in ApiKeys
    /\ pc = "load"
    /\ Fresh

inVars == <<variant, argv, apiKey>>
lhVars == <<chrome, deviceIdx, results, lighthouseResults>>
portVars == <<portPeers, sockets, portResults, settledCount, outOfOrder, openPorts>>
dnsVars == <<dnsReply, dnsRecords>>
secVars == <<httpPeer, httpsRedirect, portVars, dnsVars>>
repVars == <<finalReport, reportContent, summaryReply, file>>

\* The run enters phase ph (or stays in it).
Enter(ph) == trail' = IF trail[Len(trail)] = ph THEN trail ELSE Append(trail, ph)

Goto(p, ph) == pc' = p /\ Enter(ph) /\ exitCode' = exitCode

\* process.exit(code)
Exit(code) ==
    /\ pc' = "exited"
    /\ exitCode' = code
    /\ Enter(IF code = 0 THEN "Done" ELSE "Failed")

\* The catch block of auditWebsite (index.js lines 313-316).
TopLevelCatch(origin) ==
    /\ log' = log \cup {"Error auditing website:"}
    /\ caught' = origin
    /\ Exit(1)

\* index.js lines 15-19: dotenv.config() and new OpenAI({ apiKey }).  The
\* constructor of the openai package throws an OpenAIError when apiKey is
\* undefined; nothing catches it, the process ends with exit code 1 before
\* the script body runs.
ModuleInit ==
    /\ pc = "load"
    /\ IF apiKey = "absent"
       THEN /\ log' = log \cup {"Uncaught OpenAIError"}
            /\ Exit(1)
       ELSE /\ log' = log
            /\ Goto("main", "Start")
    /\ UNCHANGED <<inVars, formattedUrl, lhVars, pa11yResults, secVars, repVars,
                   started, caught>>

\* index.js lines 319-324: the script body.
Main ==
    /\ pc = "main"
    /\ IF ~argv.given \/ argv.text = <<>>
       THEN /\ log' = log \cup {"Please provide a URL to audit."}
            /\ Exit(1)
       ELSE /\ log' = log
            /\ Goto("formatUrl", "Normalizing")
    /\ UNCHANGED <<inVars, formattedUrl, lhVars, pa11yResults, secVars, repVars,
                   started, caught>>

\* index.js line 296 with lines 273-292: formatUrl exits the process itself
\* when the URL does not parse.
FormatUrl ==
    /\ pc = "formatUrl"
    /\ LET r == formatUrl(argv.text)
       IN IF r.ok
          THEN /\ formattedUrl' = r.href
               /\ log' = log
               /\ Goto("launch", "Probing")
          ELSE /\ formattedUrl' = formattedUrl
               /\ log' = log \cup {"Invalid URL:"}
               /\ Exit(1)
    /\ UNCHANGED <<inVars, lhVars, pa11yResults, secVars, repVars, started, caught>>

\* runLighthouse's catch block (index.js lines 72-75): log, return null.  The
\* browser is not touched.
LighthouseCatch ==
    /\ log' = log \cup {"Error running Lighthouse:"}
    /\ lighthouseResults' = Null
    /\ caught' = caught
    /\ Goto("pa11y", "Probing")

\* index.js line 32: await launch(...)
Launch ==
    /\ pc = "launch"
    /\ started' = started \cup {"launch"}
    /\ \/ /\ chrome' = [chrome EXCEPT !.launched = @ + 1]
          /\ results' = IF variant = "index" THEN NoResults ELSE Null
          /\ deviceIdx' = 1
          /\ Goto("lighthouse", "Probing")
          /\ UNCHANGED <<lighthouseResults, log, caught>>
       \/ /\ LighthouseCatch
          /\ UNCHANGED <<chrome, results, deviceIdx>>
    /\ UNCHANGED <<inVars, formattedUrl, pa11yResults, secVars, repVars>>

\* index.js lines 42-68: one turn of the loop over the device profiles.
LighthouseDevice ==
    /\ pc = "lighthouse"
    /\ variant = "index"
    /\ started' = started \cup {"lighthouse"}
    /\ \E o \in EngineOutcomes :
         LET x == IF o.threw THEN [threw |-> TRUE, value |-> Null]
                  ELSE ExtractDevice(o.lhr)
         IN IF x.threw
            THEN /\ LighthouseCatch
                 /\ UNCHANGED <<results, deviceIdx>>
            ELSE /\ results' = [results EXCEPT ![DeviceProfiles[deviceIdx]] = x.value]
                 /\ IF deviceIdx < Len(DeviceProfiles)
                    THEN deviceIdx' = deviceIdx + 1 /\ Goto("lighthouse", "Probing")
                    ELSE deviceIdx' = deviceIdx /\ Goto("kill", "Probing")
                 /\ UNCHANGED <<lighthouseResults, log, caught>>
    /\ UNCHANGED <<inVars, formattedUrl, chrome, pa11yResults, secVars, repVars>>

\* part_000 lines 33-43: the single engine run.
LighthouseSingle ==
    /\ pc = "lighthouse"
    /\ variant = "part_000"
    /\ started' = started \cup {"lighthouse"}
    /\ \E o \in EngineOutcomes :
         LET x == IF o.threw THEN [threw |-> TRUE, value |-> Null]
                  ELSE ExtractDetailed(o.lhr)
         IN IF x.threw
            THEN /\ LighthouseCatch
                 /\ UNCHANGED results
            ELSE /\ results' = x.value
                 /\ Goto("kill", "Probing")
                 /\ UNCHANGED <<lighthouseResults, log, caught>>
    /\ UNCHANGED <<inVars, formattedUrl, chrome, deviceIdx, pa11yResults, secVars,
                   repVars>>

\* index.js lines 70-71: await chrome.kill(); return results
Kill ==
    /\ pc = "kill"
    /\ chrome' = [chrome EXCEPT !.killed = @ + 1]
    /\ lighthouseResults' = results
    /\ Goto("pa11y", "Probing")
    /\ UNCHANGED <<inVars, formattedUrl, deviceIdx, results, pa11yResults, secVars,
                   repVars, started, log, caught>>

\* runPa11y without its try/catch: the exception reaches auditWebsite.
Pa11yRethrow ==
    /\ pa11yResults' = pa11yResults
    /\ TopLevelCatch("runPa11y")

\* runPa11y's catch block (index.js lines 82-85): log, return null.
Pa11yCatch ==
    /\ log' = log \cup {"Error running Pa11y:"}
    /\ pa11yResults' = Null
    /\ caught' = caught
    /\ Goto("redirect", "Probing")

\* index.js lines 78-86
RunPa11y ==
    /\ pc = "pa11y"
    /\ started' = started \cup {"pa11y"}
    /\ \E o \in Pa11yOutcomes :
         IF o.threw
         THEN Pa11yCatch
         ELSE /\ log' = log
              /\ pa11yResults' = [issues |-> o.issues]
              /\ caught' = caught
              /\ Goto("redirect", "Probing")
    /\ UNCHANGED <<inVars, formattedUrl, lhVars, secVars, repVars>>

\* index.js lines 88-92: the GET is sent; what the peer will do is its own.
HttpGet ==
    /\ pc = "redirect"
    /\ started' = started \cup {"http.get"}
    /\ httpPeer' \in HttpPeers(formattedUrl)
    /\ Goto("redirectWait", "Probing")
    /\ UNCHANGED <<inVars, formattedUrl, lhVars, pa11yResults, httpsRedirect, portVars,
                   dnsVars, repVars, log, caught>>

\* index.js lines 92-93: the response callback
HttpResponse ==
    /\ pc = "redirectWait"
    /\ httpPeer.kind = "responds"
    /\ httpsRedirect' = LocationMatches(httpPeer.location, formattedUrl)
    /\ Goto("ports", "Probing")
    /\ UNCHANGED <<inVars, formattedUrl, lhVars, pa11yResults, httpPeer, portVars,
                   dnsVars, repVars, started, log, caught>>

\* index.js lines 94-97: the 'error' handler
HttpError ==
    /\ pc = "redirectWait"
    /\ httpPeer.kind = "errors"
    /\ httpsRedirect' = FALSE
    /\ log' = log \cup {"Error checking HTTPS redirect:"}
    /\ Goto("ports", "Probing")
    /\ UNCHANGED <<inVars, formattedUrl, lhVars, pa11yResults, httpPeer, portVars,
                   dnsVars, repVars, started, caught>>

\* index.js lines 102-118: one socket per port, all connecting at once.
OpenSockets ==
    /\ pc = "ports"
    /\ started' = started \cup {"connect"}
    /\ portPeers' \in HostProfiles
    /\ sockets' = [i \in Ports |-> "connecting"]
    /\ portResults' = [i \in Ports |-> Pending]
    /\ settledCount' = 0
    /\ Goto("portsWait", "Probing")
    /\ UNCHANGED <<inVars, formattedUrl, lhVars, pa11yResults, httpPeer, httpsRedirect,
                   outOfOrder, openPorts, dnsVars, repVars, log, caught>>

\* resolve(v) of the i-th promise, seen through Promise.all
Resolve(i, v) ==
    /\ portResults' = SettleAt(portResults, settledCount, i, v)
    /\ settledCount' = settledCount + 1
    /\ sockets' = [sockets EXCEPT ![i] = "destroyed"]
    /\ outOfOrder' = (outOfOrder \/ \E j \in Ports : j < i /\ sockets[j] = "connecting")
    /\ Goto("portsWait", "Probing")
    /\ UNCHANGED <<inVars, formattedUrl, lhVars, pa11yResults, httpPeer, httpsRedirect,
                   portPeers, openPorts, dnsVars, repVars, started, log, caught>>

\* index.js lines 107-110
SocketConnect(i) ==
    /\ pc = "portsWait"
    /\ sockets[i] = "connecting"
    /\ portPeers[i] \in {"accepts", "slow"}
    /\ Resolve(i, PortOpen(commonPorts[i]))

\* index.js lines 111-114: the 1000 ms idle timer set at line 106
SocketTimeout(i) ==
    /\ pc = "portsWait"
    /\ sockets[i] = "connecting"
    /\ portPeers[i] \in {"silent", "slow"}
    /\ Resolve(i, PortClosed(commonPorts[i]))

\* index.js lines 115-117
SocketError(i) ==
    /\ pc = "portsWait"
    /\ sockets[i] = "connecting"
    /\ portPeers[i] = "refuses"
    /\ Resolve(i, PortClosed(commonPorts[i]))

\* index.js lines 103, 120-121: Promise.all resolves once every promise has
PortsDone ==
    /\ pc = "portsWait"
    /\ \A i \in Ports : sockets[i] = "destroyed"
    /\ openPorts' = portResults
    /\ Goto("dns", "Probing")
    /\ UNCHANGED <<inVars, formattedUrl, lhVars, pa11yResults, httpPeer, httpsRedirect,
                   portPeers, sockets, portResults, settledCount, outOfOrder, dnsVars,
                   repVars, started, log, caught>>

\* index.js lines 124-134, part_000 lines 99-109: the resolver's callback
DnsCallback ==
    /\ pc = "dns"
    /\ started' = started \cup {"resolveTxt"}
    /\ dnsReply' \in DnsOutcomes
    /\ dnsRecords' = IF variant = "index" THEN checkDNSRecords(dnsReply')
                     ELSE checkDNSRecordsPart0(dnsReply')
    /\ Goto("assemble", "Probing")
    /\ UNCHANGED <<inVars, formattedUrl, lhVars, pa11yResults, httpPeer, httpsRedirect,
                   portVars, repVars, log, caught>>

\* index.js lines 142-146 and 303-308
Assemble ==
    /\ pc = "assemble"
    /\ finalReport' =
         [url |-> formattedUrl,
          lighthouse |-> lighthouseResults,
          pa11y |-> IF ~IsNull(pa11yResults) THEN pa11yResults.issues ELSE <<>>,
          security |-> [httpsRedirect |-> httpsRedirect, openPorts |-> openPorts,
                        dnsRecords |-> dnsRecords]]
    /\ Goto("save", "Synthesizing")
    /\ UNCHANGED <<inVars, formattedUrl, lhVars, pa11yResults, secVars, reportContent,
                   summaryReply, file, started, log, caught>>

\* index.js lines 150-160: the Reports directory is there, or mkdirSync makes
\* it, or mkdirSync throws; that call is outside saveReportToFile's try block.
SaveReportToFile ==
    /\ pc = "save"
    /\ \/ /\ UNCHANGED <<log, caught>>
          /\ Goto("format", "Synthesizing")
       \/ TopLevelCatch("mkdirSync")
    /\ UNCHANGED <<started, inVars, formattedUrl, lhVars, pa11yResults, secVars, repVars>>

\* saveReportToFile's catch block (index.js lines 166-168)
SaveCatch ==
    /\ log' = log \cup {"Error saving report to file:"}
    /\ Goto("complete", trail[Len(trail)])

\* index.js lines 163 and 171-249: the base report is rendered.
FormatReportIndex ==
    /\ pc = "format"
    /\ variant = "index"
    /\ LET r == RenderIndex(finalReport, formattedUrl)
       IN IF r.threw
          THEN /\ SaveCatch
               /\ UNCHANGED reportContent
          ELSE /\ reportContent' = r.content
               /\ log' = log
               /\ Goto("summarize", "Summarizing")
    /\ UNCHANGED <<inVars, formattedUrl, lhVars, pa11yResults, secVars, finalReport,
                   summaryReply, file, started, caught>>

\* index.js lines 253-270: the summarization call; formatReport returns.
SummarizeIndex ==
    /\ pc = "summarize"
    /\ variant = "index"
    /\ started' = started \cup {"openai"}
    /\ summaryReply' \in SummaryReplies
    /\ log' = IF summaryReply' \in {"throws", "noChoices"}
              THEN log \cup {"OpenAI API error:"} ELSE log
    /\ Goto("write", "Summarizing")
    /\ UNCHANGED <<inVars, formattedUrl, lhVars, pa11yResults, secVars, finalReport,
                   reportContent, file, caught>>

\* index.js lines 164-168: writeFileSync of what formatReport returned
WriteFileIndex ==
    /\ pc = "write"
    /\ variant = "index"
    /\ started' = started \cup {"writeFile"}
    /\ \/ /\ file' = [exists |-> TRUE,
                      content |-> WithSummaryIndex(reportContent, summaryReply)]
          /\ log' = log
          /\ Goto("complete", "Summarizing")
       \/ /\ file' = file
          /\ SaveCatch
    /\ UNCHANGED <<inVars, formattedUrl, lhVars, pa11yResults, secVars, finalReport,
                   reportContent, summaryReply, caught>>

\* part_000 lines 138 and 176-224
FormatReportPart0 ==
    /\ pc = "format"
    /\ variant = "part_000"
    /\ LET r == RenderPart0(finalReport, formattedUrl)
       IN IF r.threw
          THEN /\ SaveCatch
               /\ UNCHANGED reportContent
          ELSE /\ reportContent' = r.content
               /\ log' = log
               /\ Goto("write", "Synthesizing")
    /\ UNCHANGED <<inVars, formattedUrl, lhVars, pa11yResults, secVars, finalReport,
                   summaryReply, file, started, caught>>

\* part_000 lines 141-142: the base report is written first
WriteFilePart0 ==
    /\ pc = "write"
    /\ variant = "part_000"
    /\ started' = started \cup {"writeFile"}
    /\ \/ /\ file' = [exists |-> TRUE, content |-> reportContent]
          /\ log' = log
          /\ Goto("summarize", "Summarizing")
       \/ /\ file' = file
          /\ SaveCatch
    /\ UNCHANGED <<inVars, formattedUrl, lhVars, pa11yResults, secVars, finalReport,
                   reportContent, summaryReply, caught>>

\* part_000 lines 145-146 and 157-174: generateSummary
SummarizePart0 ==
    /\ pc = "summarize"
    /\ variant = "part_000"
    /\ started' = started \cup {"openai"}
    /\ summaryReply' \in SummaryReplies
    /\ log' = IF summaryReply' = "throws" THEN log \cup {"OpenAI API error:"} ELSE log
    /\ IF IsNull(generateSummary(summaryReply'))
       THEN Goto("complete", "Summarizing")
       ELSE Goto("append", "Summarizing")
    /\ UNCHANGED <<inVars, formattedUrl, lhVars, pa11yResults, secVars, finalReport,
                   reportContent, file, caught>>

\* part_000 lines 147-148: appendFileSync of the summary section
AppendSummaryPart0 ==
    /\ pc = "append"
    /\ variant = "part_000"
    /\ started' = started \cup {"appendFile"}
    /\ \/ /\ file' = [file EXCEPT !.content =
                        @ \o <<Line("OpenAI Summary", generateSummary(summaryReply).text)>>]
          /\ log' = log
          /\ Goto("complete", "Summarizing")
       \/ /\ file' = file
          /\ SaveCatch
    /\ UNCHANGED <<inVars, formattedUrl, lhVars, pa11yResults, secVars, finalReport,
                   reportContent, summaryReply, caught>>

\* index.js lines 311-312
Complete ==
    /\ pc = "complete"
    /\ Exit(0)
    /\ UNCHANGED <<inVars, formattedUrl, lhVars, pa11yResults, secVars, repVars,
                   started, log, caught>>

Next ==
    \/ Main
    \/ FormatUrl
    \/ Launch
    \/ LighthouseDevice
    \/ LighthouseSingle
    \/ Kill
    \/ RunPa11y
    \/ HttpGet
    \/ HttpResponse
    \/ HttpError
    \/ OpenSockets
    \/ \E i \in Ports : SocketConnect(i)
    \/ \E i \in Ports : SocketTimeout(i)
    \/ \E i \in Ports : SocketError(i)
    \/ PortsDone
    \/ DnsCallback
    \/ Assemble
    \/ SaveReportToFile
    \/ FormatReportIndex
    \/ SummarizeIndex
    \/ WriteFileIndex
    \/ FormatReportPart0
    \/ WriteFilePart0
    \/ SummarizePart0
    \/ AppendSummaryPart0
    \/ Complete

Spec == Init /\ [][Next]_vars

\* The whole process, from the evaluation of the module on.
LoadNext == ModuleInit \/ Next

LoadSpec == LoadInit /\ [][LoadNext]_vars

(***************************************************************************)
(* formatUrl on its own: the script body hands one argument to it.  The    *)
(* arguments are built from padding, a scheme prefix in some spelling (or  *)
(* none), a host and a path.                                               *)
(***************************************************************************)
Pads == {<<>>, <<" ">>, <<" ", " ">>}
SchemeSpellings == {<<>>, HttpPrefix, HttpsPrefix,
                    <<"H","T","T","P",":","/","/">>,
                    <<"H","t","t","p","s",":","/","/">>}
HostSpellings == {<<"e","x","a","m","p","l","e",".","c","o","m">>,
                  <<"E","x","a","m","p","l","e",".","c","o","m">>,
                  <<"e","x",".","c","o">>,
                  <<"a"," ","b">>}
PathSpellings == {<<>>, <<"/">>, <<"/", "p">>}

UrlInputs ==
    {l \o sc \o h \o pa \o r :
        l \in Pads, sc \in SchemeSpellings, h \in HostSpellings,
        pa \in PathSpellings, r \in Pads}

UrlInit ==
    /\ variant \in Variants
    /\ \E t \in UrlInputs : argv = [given |-> TRUE, text |-> t]
    /\ apiKey = "set"
    /\ pc = "main"
    /\ Fresh

UrlNext == Main \/ FormatUrl

UrlSpec == UrlInit /\ [][UrlNext]_vars

(***************************************************************************)
(* formatReport on its own: every Report of the data model is rendered     *)
(* once.  A device profile whose run failed has no entry (Null).           *)
(***************************************************************************)
QualityResults == {ExtractDevice(l).value : l \in {LhrGood, LhrSlow, LhrNullScore}}
DetailedReports == {ExtractDetailed(l).value : l \in {LhrGood, LhrSlow, LhrNullScore}}

SomeUrl == formatUrl(<<"e","x",".","c","o">>).href
SomePorts == [i \in Ports |-> IF i = 1 THEN PortOpen(commonPorts[i])
                              ELSE PortClosed(commonPorts[i])]

QualityOf(v) ==
    IF v = "index"
    THEN {Null} \cup [mobile : QualityResults \cup {Null},
                      desktop : QualityResults \cup {Null}]
    ELSE {Null} \cup DetailedReports

\* the Report auditWebsite would assemble from these results
ReportOf(v, lh, issues, redirect, o) ==
    [url |-> SomeUrl,
     lighthouse |-> lh,
     pa11y |-> issues,
     security |-> [httpsRedirect |-> redirect,
                   openPorts |-> SomePorts,
                   dnsRecords |-> IF v = "index" THEN checkDNSRecords(o)
                                  ELSE checkDNSRecordsPart0(o)]]

ReportInit ==
    /\ variant \in Variants
    /\ argv = [given |-> TRUE, text |-> <<"e","x",".","c","o">>]
    /\ apiKey = "set"
    /\ pc = "format"
    /\ exitCode = NoExit
    /\ formattedUrl = SomeUrl
    /\ chrome = [launched |-> 0, killed |-> 0]
    /\ deviceIdx = 0
    /\ results = Null
    /\ lighthouseResults = Null
    /\ pa11yResults = Null
    /\ httpPeer = NoPeer
    /\ httpsRedirect = FALSE
    /\ portPeers = [i \in Ports |-> "none"]
    /\ sockets = [i \in Ports |-> "unopened"]
    /\ portResults = [i \in Ports |-> Pending]
    /\ settledCount = 0
    /\ outOfOrder = FALSE
    /\ openPorts = <<>>
    /\ dnsReply = Null
    /\ dnsRecords = Null
    /\ \E lh \in QualityOf(variant), issues \in IssueLists, redirect \in BOOLEAN,
          o \in DnsOutcomes :
            finalReport = ReportOf(variant, lh, issues, redirect, o)
    /\ reportContent = <<>>
    /\ summaryReply = NoReply
    /\ file = NoFile
    /\ started = {}
    /\ log = {}
    /\ caught = "none"
    /\ trail = <<"Start", "Normalizing", "Probing", "Synthesizing">>

\* one call of formatReport, up to its return
ReportNext ==
    \/ FormatReportIndex
    \/ SummarizeIndex
    \/ FormatReportPart0

ReportSpec == ReportInit /\ [][ReportNext]_vars

(***************************************************************************)
(* Properties.                                                             *)
(***************************************************************************)
ArgMissing == ~argv.given \/ argv.text = <<>>
UrlInvalid == ~ArgMissing /\ ~ParseUrl(WithScheme(argv.text)).ok

Last(q) == q[Len(q)]
IsPrefix(a, b) == Len(a) <= Len(b) /\ \A i \in DOMAIN a : a[i] = b[i]
HasLine(content, k) == \E i \in DOMAIN content : content[i].k = k

\* the write of the report was attempted and failed
WriteFailed == "writeFile" \in started /\ ~file.exists

PhaseOrder == <<"Start", "Normalizing", "Probing", "Synthesizing", "Summarizing", "Done">>

ProbeErrors == {"Error running Lighthouse:", "Error running Pa11y:",
                "Error checking HTTPS redirect:"}

\* C1: every run that exits with code 0 has rendered its report and handed it
\* to the file write, whatever the probes did; the report that was written
\* carries the accessibility and the security results.
C1_CompletedRunHasReport ==
    exitCode = 0 =>
        /\ "writeFile" \in started
        /\ file.exists =>
             /\ HasLine(file.content, "Pa11y Accessibility Issues")
             /\ HasLine(file.content, "Open Ports")

\* C2: once runLighthouse has returned, kill() has been called exactly once
\* for every browser launched.
C2_KillOncePerLaunch ==
    pc \notin {"launch", "lighthouse", "kill"} => chrome.killed = chrome.launched

C4_NoProbeStuck ==
    /\ pc = "redirectWait" => ENABLED (HttpResponse \/ HttpError)
    /\ pc = "portsWait" =>
         ENABLED (\/ \E i \in Ports : SocketConnect(i) \/ SocketTimeout(i) \/ SocketError(i)
                  \/ PortsDone)
    /\ pc = "dns" => ENABLED DnsCallback

\* C5: the array Promise.all fills, and the array checkOpenPorts returns, hold
\* at place i the result of the i-th declared port; the returned array has
\* exactly 7 entries, each open or closed.
C5_PortOrder ==
    /\ \A i \in Ports : portResults[i] # Pending => portResults[i].port = commonPorts[i]
    /\ openPorts # <<>> =>
         /\ Len(openPorts) = 7
         /\ \A i \in 1..7 :
              /\ openPorts[i].port = commonPorts[i]
              /\ openPorts[i].state \in {"open", "closed or filtered"}

\* C5 witness: checkOpenPorts has returned after its sockets completed out of
\* the declared order, with some ports open and some closed.
C5_Witness ==
    /\ openPorts # <<>>
    /\ outOfOrder
    /\ \E i, j \in Ports : openPorts[i].state = "open" /\ openPorts[j].state # "open"

\* C6: when the summarization call failed (it threw, or its answer holds no
\* choice) the run still exits with code 0 and the file holds exactly the
\* rendered base report; when it answered with text the base report is a
\* prefix of the file, followed by the summary section only.
C6_SummaryFailureKeepsBase ==
    pc = "exited" =>
        /\ summaryReply \in {"throws", "noChoices"} =>
             /\ exitCode = 0
             /\ file.exists => file.content = reportContent
        /\ (summaryReply = "text" /\ file.exists) =>
             /\ IsPrefix(reportContent, file.content)
             /\ Len(file.content) <= Len(reportContent) + 1

\* C7: once the resolver has called back, checkDNSRecords has resolved to a
\* list: the empty list when the resolver reported an error or delivered a
\* non-list, the resolver's list otherwise.
C7_DnsFallback ==
    ~IsNull(dnsReply) =>
        /\ dnsRecords.kind = "list"
        /\ dnsRecords.items =
             IF dnsReply.err \/ ~dnsReply.isList THEN <<>> ELSE dnsReply.items

RedirectResolved == httpPeer.kind # "none" /\ pc # "redirectWait"

\* C8: checkHttpsRedirect has resolved to true exactly when a response arrived
\* whose location header equals the formatted URL; a response without that
\* header value and a failed request both give false.
C8_RedirectResult ==
    RedirectResolved =>
        /\ httpPeer.kind \in {"responds", "errors"}
        /\ httpsRedirect = (/\ httpPeer.kind = "responds"
                            /\ httpPeer.location.present
                            /\ httpPeer.location.value = formattedUrl)

\* C8 witness: a response arrived whose location header differs from the
\* formatted URL in one character, and the probe resolved to false.
C8_Witness ==
    /\ RedirectResolved
    /\ httpPeer.kind = "responds"
    /\ httpPeer.location.present
    /\ httpPeer.location.value # formattedUrl
    /\ ~httpsRedirect

\* C9: in a run whose URL does not parse nothing external is ever started, no
\* browser is launched and no file is written, and the run ends with exit
\* code 1.
C9_InvalidUrlStartsNothing ==
    UrlInvalid =>
        /\ started = {}
        /\ chrome.launched = 0
        /\ ~file.exists
        /\ pc \in {"main", "formatUrl", "exited"}
        /\ pc = "exited" => exitCode = 1

\* C9 witness: a run with an unparseable URL has ended.
C9_Witness == UrlInvalid /\ pc = "exited" /\ exitCode = 1 /\ started = {}

\* C10: the phases are entered in the declared order without a skip; Failed
\* follows a missing argument, an invalid URL in Normalizing, or a top-level
\* exception; a run that ends in Done, its file write not having failed, went
\* through every phase.
C10_PhaseOrder ==
    /\ Last(trail) \notin {"Done", "Failed"} => IsPrefix(trail, PhaseOrder)
    /\ Last(trail) = "Failed" =>
         \/ ArgMissing /\ trail = <<"Start", "Failed">>
         \/ UrlInvalid /\ trail = <<"Start", "Normalizing", "Failed">>
         \/ caught # "none"
    /\ (Last(trail) = "Done" /\ ~WriteFailed) => trail = PhaseOrder

\* runPa11y is the last call of the quality branch, and it returns in one step
QualityCompleted == "pa11y" \in started
SecurityStarted == "http.get" \in started
SecurityCompleted == ~IsNull(dnsReply)

\* C11: the quality branch (runLighthouse, runPa11y) and the security branch
\* (checkSecurity) are both started when probing begins, so the security branch
\* is in flight by the time the quality branch completes; the report is
\* assembled only once both branches have completed, whatever their outcomes.
C11_BranchesConcurrent ==
    /\ QualityCompleted => SecurityStarted
    /\ ~IsNull(finalReport) => QualityCompleted /\ SecurityCompleted

\* C12: checkSecurity starts the redirect, the port and the DNS probe together,
\* so all three have been started by the time the first of them resolves; it
\* returns only after all three resolved, and it never throws.
C12_ProbesConcurrent ==
    /\ (SecurityStarted /\ RedirectResolved) =>
         {"http.get", "connect", "resolveTxt"} \subseteq started
    /\ ~IsNull(finalReport) =>
         RedirectResolved /\ openPorts # <<>> /\ SecurityCompleted
    /\ caught # "checkSecurity"

\* the QualityResults runLighthouse has stored so far
StoredQualityResults ==
    IF IsNull(results) THEN {}
    ELSE IF variant = "index"
         THEN {results[d] : d \in {"mobile", "desktop"}} \ {Null}
         ELSE {results}

\* the engine results in which every category has a raw score
FullyScored ==
    {l \in Lhrs : /\ ~IsNull(l.categories)
                  /\ \A c \in DOMAIN l.categories : l.categories[c] # NullScore}

\* C20: every QualityResult runLighthouse stores comes from an engine result
\* in which all four categories have a raw score, and its scores are those raw
\* scores times 100; a result with a missing (null) raw score makes the run of
\* that device fail and never yields a QualityResult with a score of 0.
C20_NoScoreFromMissing ==
    \A q \in StoredQualityResults :
        \E l \in FullyScored :
            /\ q.seoScore = l.categories.seo
            /\ q.accessibilityScore = l.categories.accessibility
            /\ q.performanceScore = l.categories.performance
            /\ q.bestPracticesScore = l.categories.bestPractices

\* formatReport has been called and is over (it returned or it threw)
FormatReportOver == pc \notin {"format", "summarize"} /\ ~IsNull(finalReport)
                    /\ pc \notin {"assemble", "save"}

\* the base report was rendered
Rendered == HasLine(reportContent, "Recommendations")

\* the recommendations of the rendered report; none when nothing was rendered
RecommendationsSection ==
    IF Rendered
    THEN reportContent[CHOOSE i \in DOMAIN reportContent :
                         reportContent[i].k = "Recommendations"].v
    ELSE <<>>

Recommends(text) ==
    \E i \in DOMAIN RecommendationsSection : RecommendationsSection[i] = text

\* the QualityResults a report holds
PresentQuality(report) ==
    IF IsNull(report.lighthouse) THEN {}
    ELSE IF variant = "index"
         THEN {report.lighthouse[d] : d \in {"mobile", "desktop"}} \ {Null}
         ELSE {report.lighthouse}

AllGood(report) ==
    /\ \A q \in PresentQuality(report) :
         /\ q.seoScore >= 90 /\ q.accessibilityScore >= 90
         /\ q.performanceScore >= 90 /\ q.bestPracticesScore >= 90
    /\ report.security.httpsRedirect
    /\ report.pa11y = <<>>

\* one of the rules of the synthesizer applies to the report
RuleTriggered(report) ==
    \/ \E q \in PresentQuality(report) :
         q.performanceScore < 90 \/ q.accessibilityScore < 90
    \/ ~report.security.httpsRedirect

\* C13: a rendered report whose present device profiles have all four scores
\* at 90 or more, whose redirect check passed and whose issue list is empty has
\* exactly the placeholder "No major issues found." as its recommendations; and
\* the placeholder is not among the recommendations of a rendered report for
\* which a rule is triggered.
C13_PlaceholderIffNoRule ==
    (FormatReportOver /\ Rendered) =>
        /\ AllGood(finalReport) => RecommendationsSection = NoMajorIssues
        /\ RuleTriggered(finalReport) => ~Recommends("No major issues found.")

MobileRecommendation ==
    "Mobile: Optimize images, reduce JavaScript, and improve time to interactive."
DesktopRecommendation ==
    "Desktop: Optimize images, reduce JavaScript, and improve time to interactive."
HttpsRecommendation == "Ensure that HTTP traffic is redirected to HTTPS."

SlowProfile(report, d) ==
    /\ ~IsNull(report.lighthouse)
    /\ ~IsNull(report.lighthouse[d])
    /\ report.lighthouse[d].performanceScore < 90

C15_HttpsRecommendation ==
    (FormatReportOver /\ Rendered /\ ~finalReport.security.httpsRedirect) =>
        /\ Recommends(HttpsRecommendation)
        /\ Last(RecommendationsSection) = HttpsRecommendation

\* what formatReport returned to saveReportToFile
Returned ==
    IF variant = "index" THEN WithSummaryIndex(reportContent, summaryReply)
    ELSE reportContent

\* C16: when formatReport has returned, the text it returned is the rendering
\* of the report alone: it is the same whatever the summarization service
\* answered, and no external call was made while it was produced.
C16_RenderingPure ==
    pc = "write" =>
        /\ Returned = IF variant = "index"
                      THEN RenderIndex(finalReport, formattedUrl).content
                      ELSE RenderPart0(finalReport, formattedUrl).content
        /\ variant = "index" =>
             \A r \in SummaryReplies : WithSummaryIndex(reportContent, r) = Returned
        /\ "openai" \notin started

AllProbes == {"launch", "pa11y", "http.get", "connect", "resolveTxt"}

\* C17: a process started without the summarization credential, with an
\* argument that is a valid URL, ends with exit code 0, having normalized the
\* URL, started every probe and assembled the report; the missing credential
\* is never fatal.
C17_NoCredentialNotFatal ==
    (apiKey = "absent" /\ pc = "exited" /\ ~ArgMissing /\ ~UrlInvalid) =>
        /\ exitCode = 0
        /\ formattedUrl # NoUrl
        /\ AllProbes \subseteq started
        /\ ~IsNull(finalReport)

\* C18: a failure of saveReportToFile to persist the report, be it in creating
\* the Reports directory or in writing the file, never reaches the catch block
\* of auditWebsite: it is logged by saveReportToFile and the run ends with exit
\* code 0.
C18_PersistenceContained ==
    /\ caught # "mkdirSync"
    /\ (pc = "exited" /\ WriteFailed) =>
         /\ exitCode = 0
         /\ "Error saving report to file:" \in log

\* the scheme the trimmed argument carries, compared without regard to case
InputScheme ==
    LET t == Trim(argv.text)
    IN IF Len(t) >= 8 /\ ToLower(SubSeq(t, 1, 8)) = HttpsPrefix THEN "https"
       ELSE IF Len(t) >= 7 /\ ToLower(SubSeq(t, 1, 7)) = HttpPrefix THEN "http"
       ELSE "none"

\* number of places where "://" occurs in s
SchemeMarks(s) ==
    Cardinality({i \in 1..(Len(s) - 2) : SubSeq(s, i, i + 2) = <<":", "/", "/">>})

\* C19: the URL formatUrl returned starts with https:// when the trimmed
\* argument has no http:// or https:// prefix in any spelling, and with the
\* argument's own scheme, lowercased, when it has one: http stays http.  It has
\* one scheme only.  "example.com" gives "https://example.com/" and
\* "  HTTP://Example.com  " gives "http://example.com/".
C19_SchemePrepended ==
    formattedUrl # NoUrl =>
        /\ InputScheme = "none" => StartsWith(formattedUrl, HttpsPrefix)
        /\ InputScheme = "https" => StartsWith(formattedUrl, HttpsPrefix)
        /\ InputScheme = "http" => /\ StartsWith(formattedUrl, HttpPrefix)
                                   /\ ~StartsWith(formattedUrl, HttpsPrefix)
        /\ SchemeMarks(formattedUrl) = 1
        /\ argv.text = <<"e","x","a","m","p","l","e",".","c","o","m">> =>
             formattedUrl = <<"h","t","t","p","s",":","/","/","e","x","a","m","p","l","e",".","c","o","m","/">>
        /\ argv.text = <<" "," ","H","T","T","P",":","/","/","E","x","a","m","p","l","e",".","c","o","m"," "," ">> =>
             formattedUrl = <<"h","t","t","p",":","/","/","e","x","a","m","p","l","e",".","c","o","m","/">>

\* C19 witness: formatUrl has returned "http://example.com/" for the padded
\* upper-case argument.
C19_Witness ==
    /\ pc = "launch"
    /\ argv.text = <<" "," ","H","T","T","P",":","/","/","E","x","a","m","p","l","e",".","c","o","m"," "," ">>
    /\ formattedUrl = <<"h","t","t","p",":","/","/","e","x","a","m","p","l","e",".","c","o","m","/">>

\* runLighthouse has returned to auditWebsite
LighthouseReturned == "launch" \in started /\ pc \notin {"launch", "lighthouse", "kill"}

\* C21: once the per-device runLighthouse has returned, every device profile
\* whose engine run succeeded has its QualityResult in the mapping that was
\* returned, and in the assembled report, even when the run of the other
\* profile threw; only a profile whose run failed has no entry.
C21_SuccessfulProfileKept ==
    (variant = "index" /\ LighthouseReturned /\ ~IsNull(results)) =>
        \A d \in {"mobile", "desktop"} :
            ~IsNull(results[d]) =>
                /\ ~IsNull(lighthouseResults)
                /\ lighthouseResults[d] = results[d]
                /\ ~IsNull(finalReport) => finalReport.lighthouse = lighthouseResults

\* the detailed audit list of the rendered report
AuditDetails ==
    reportContent[CHOOSE i \in DOMAIN reportContent :
                    reportContent[i].k = "Lighthouse Audit Details"].v

\* the audit has a numeric raw score below 0.9
FailingAudit(a) == a.score # NullScore /\ a.score < 90

\* C22: the detailed audit list of a rendered report has an entry, with the
\* score times 100, for exactly the audits whose raw score is a number below
\* 0.9: every entry comes from such an audit of a present device profile (so
\* no audit at 0.9 or more and no audit with a null score is listed), and
\* every such audit of every present device profile has its entry.
C22_AuditDetails ==
    (FormatReportOver /\ Rendered) =>
        /\ \A e \in DOMAIN AuditDetails :
             \E q \in PresentQuality(finalReport) : \E i \in DOMAIN q.audits :
                /\ FailingAudit(q.audits[i])
                /\ AuditDetails[e].title = q.audits[i].title
                /\ AuditDetails[e].score = q.audits[i].score
        /\ \A q \in PresentQuality(finalReport) : \A i \in DOMAIN q.audits :
             FailingAudit(q.audits[i]) =>
                \E e \in DOMAIN AuditDetails :
                   /\ AuditDetails[e].title = q.audits[i].title
                   /\ AuditDetails[e].score = q.audits[i].score

====
